---- MODULE Spec2Model ----
(***************************************************************************)
(* Verification model of the breadth-first traversal template of BFS.py:   *)
(* the Graph container (insert_vertex, insert_edge, edges, opposite) and   *)
(* the BFSTemplate driver (bfs, _bfs_component) with its hook call sites.  *)
(*                                                                         *)
(* A Vertex is modelled by its element (Vertex.__eq__/__hash__ compare the *)
(* element).  An Edge object is a record [id, endpoints]: `id` stands for  *)
(* the object identity, `endpoints` is the tuple stored by Edge.__init__;  *)
(* dictionaries and sets see an edge only through EdgeKey, the frozenset   *)
(* of its endpoints (Edge.__eq__/__hash__).                                *)
(***************************************************************************)
EXTENDS Integers, Sequences, FiniteSets, TLC

\* ---- bounds of the model ----
MaxCalls == 3    \* number of insert_vertex / insert_edge calls made by the caller
MaxRuns == 2     \* number of bfs() calls made on one BFSTemplate instance
MaxSeqCalls == 4 \* number of calls the caller makes on one Sequence
MaxTreeCalls == 5 \* number of calls the caller makes on one BinaryTree

\* The elements the caller wraps into vertices.  Vertex only hashes and
\* compares its element, so the caller's choice of names is immaterial and the
\* caller below names a new element by the next unused number; MaxCalls calls
\* create at most 2 * MaxCalls vertices.
Elements == 1..(2 * MaxCalls)

\* ---- label constants (BFS.py lines 5-8) ----
UNEXPLORED == "UNEXPLORED"
VISITED == "VISITED"
DISCOVERY == "DISCOVERY"
CROSS == "CROSS"

VARIABLES
    vertices_map,   \* Graph.vertices_map: the elements in insertion order
    adjacency_map,  \* Graph.adjacency_map: vertex -> sequence of incident Edge objects
    calls,          \* number of insert_* calls the caller has made
    vertex_labels,  \* BFSTemplate.vertex_labels
    edge_labels,    \* BFSTemplate.edge_labels, keyed by EdgeKey
    pc,             \* position of the control flow of the caller / bfs()
    idx,            \* position of `for v in self.graph.vertices()` (line 137)
    s,              \* seed of the component being traversed
    q,              \* the deque of _bfs_component
    v,              \* the vertex popped at line 151
    k,              \* position of `for e in self.graph.incident_edges(v)` (line 154)
    hook_log,       \* every hook call made so far, in order
    enq_log,        \* every vertex put into q so far, in order
    ret,            \* the value returned by bfs()
    opp,            \* the caller's last g.opposite(v, e) call and its outcome
    heap,           \* the _Position objects of a Sequence: id -> [element, prev, next]
    seq_size,       \* Sequence._size
    handles,        \* the Positions the Sequence API has returned to the caller
    seq_abs,        \* the elements inserted and not removed, in list order
    seq_calls,      \* number of calls the caller has made on the Sequence
    seq_result,     \* outcome of the caller's last call on the Sequence
    tree_nodes,     \* the _Position objects of a BinaryTree: id -> [element, parent, left, right]
    tree_size,      \* BinaryTree._size
    tree_calls,     \* number of calls the caller has made on the BinaryTree
    tree_result     \* outcome of the caller's last call on the BinaryTree

seq_vars == <<heap, seq_size, handles, seq_abs, seq_calls, seq_result>>

tree_vars == <<tree_nodes, tree_size, tree_calls, tree_result>>

\* what the traversal never touches
other_vars == <<opp, seq_vars, tree_vars>>

vars == <<vertices_map, adjacency_map, calls, vertex_labels, edge_labels, pc,
          idx, s, q, v, k, hook_log, enq_log, ret, other_vars>>

graph_vars == <<vertices_map, adjacency_map, calls>>
label_vars == <<vertex_labels, edge_labels>>

\* ---- helpers ----
Range(f) == {f[x] : x \in DOMAIN f}

\* d[key] = val on a dict
DictSet(d, key, val) ==
    [x \in (DOMAIN d) \cup {key} |-> IF x = key THEN val ELSE d[x]]

EmptyDict == [x \in {} |-> 0]

\* ---- Edge ----
\* frozenset(self.endpoints): what Edge.__hash__ and Edge.__eq__ look at
EdgeKey(e) == {e.endpoints[1], e.endpoints[2]}

\* ---- Graph ----
\* Graph.vertices(): vertices_map.values(), in insertion order
vertices(vm) == vm

\* Graph.incident_edges(v): adjacency_map.get(v, [])
incident_edges(am, x) == IF x \in DOMAIN am THEN am[x] ELSE <<>>

\* opposite returning the second endpoint whatever v is
opposite_second(x, e) == e.endpoints[2]

\* Graph.opposite(v, e)
opposite(x, e) ==
    IF e.endpoints[1] = x THEN e.endpoints[2] ELSE e.endpoints[1]

\* insert_vertex without the test of line 70: the adjacency list is reset
insert_vertex_reset(G, element) ==
    [vm |-> IF element \notin Range(G.vm) THEN Append(G.vm, element) ELSE G.vm,
     am |-> DictSet(G.am, element, <<>>)]

\* Graph.insert_vertex(element) on the graph G = [vm, am]
insert_vertex(G, element) ==
    IF element \notin Range(G.vm)
    THEN [vm |-> Append(G.vm, element),
          am |-> DictSet(G.am, element, <<>>)]
    ELSE G

\* Graph.insert_edge(v_element, w_element); id is the identity of the new Edge
insert_edge(G, a, b, id) ==
    LET G1 == insert_vertex(G, a)
        G2 == insert_vertex(G1, b)
        edge == [id |-> id, endpoints |-> <<a, b>>]
        am1 == [G2.am EXCEPT ![a] = Append(@, edge)]
        am2 == [am1 EXCEPT ![b] = Append(@, edge)]
    IN  [vm |-> G2.vm, am |-> am2]

\* all Edge objects held by the adjacency lists
EdgeObjects(am) == UNION {Range(am[x]) : x \in DOMAIN am}

\* Graph.edges(): the set built by unique_edges.add(edge); the objects are
\* compared by EdgeKey, so the set holds one key per unordered endpoint pair
edges(am) == {EdgeKey(e) : e \in EdgeObjects(am)}

Graph == [vm |-> vertices_map, am |-> adjacency_map]

\* number of Edge objects created so far (one per insert_edge call)
NumEdgeObjects == Cardinality({e.id : e \in EdgeObjects(adjacency_map)})

Hook(name, args) == [hook |-> name, args |-> args]

\* no g.opposite call has been made
NoCall ==
    [called |-> FALSE, v |-> 0, e |-> [id |-> 0, endpoints |-> <<0, 0>>],
     kind |-> "none", value |-> 0]

\* ---- Sequence: objects ----
\* Python's None as an element and as a _prev / _next reference
NONE == 0
\* the identities of self._header and self._trailer (lines 36-37)
HEADER == 1
TRAILER == 2

\* _Position.__init__(element, prev_node, next_node)
Position(element, prev_node, next_node) ==
    [element |-> element, prev |-> prev_node, next |-> next_node]

\* Sequence.__init__: header and trailer linked to each other
EmptySequence == <<Position(NONE, NONE, TRAILER), Position(NONE, HEADER, NONE)>>

Returns(x) == [kind |-> "return", value |-> x]
Raises(x) == [kind |-> "raise", value |-> x]

\* the objects of a BinaryTree: the root is object 1, a sentinel at first
ROOT == 1
TreePosition(element, parent, left, right) ==
    [element |-> element, parent |-> parent, left |-> left, right |-> right]
EmptyTree == <<TreePosition(NONE, NONE, NONE, NONE)>>

Init ==
    /\ vertices_map = <<>>
    /\ adjacency_map = EmptyDict
    /\ calls = 0
    /\ vertex_labels = EmptyDict
    /\ edge_labels = EmptyDict
    /\ pc = "build"
    /\ idx = 0
    /\ s = 0
    /\ q = <<>>
    /\ v = 0
    /\ k = 0
    /\ hook_log = <<>>
    /\ enq_log = <<>>
    /\ ret = [vertices |-> EmptyDict, edges |-> EmptyDict]
    /\ opp = NoCall
    /\ heap = EmptySequence
    /\ seq_size = 0
    /\ handles = {}
    /\ seq_abs = <<>>
    /\ seq_calls = 0
    /\ seq_result = [kind |-> "none", value |-> NONE]
    /\ tree_nodes = EmptyTree
    /\ tree_size = 0
    /\ tree_calls = 0
    /\ tree_result = [kind |-> "none", value |-> NONE]

bfs_vars == <<vertex_labels, edge_labels, idx, s, q, v, k, hook_log, enq_log, ret>>

\* the elements the caller may pass next: those in use and one new element
Known(vm) == {x \in Elements : x <= Len(vm) + 1}

\* the caller's g.insert_vertex(element)
InsertVertex(element) ==
    /\ pc = "build"
    /\ calls < MaxCalls
    /\ element \in Known(vertices_map)
    /\ LET G == insert_vertex(Graph, element)
       IN  /\ vertices_map' = G.vm
           /\ adjacency_map' = G.am
    /\ calls' = calls + 1
    /\ UNCHANGED <<other_vars, pc, bfs_vars>>

\* the caller's g.insert_edge(a, b)
InsertEdge(a, b) ==
    /\ pc = "build"
    /\ calls < MaxCalls
    /\ a \in Known(vertices_map)
    /\ b \in Known(insert_vertex(Graph, a).vm)
    /\ LET G == insert_edge(Graph, a, b, NumEdgeObjects + 1)
       IN  /\ vertices_map' = G.vm
           /\ adjacency_map' = G.am
    /\ calls' = calls + 1
    /\ UNCHANGED <<other_vars, pc, bfs_vars>>

\* ---- BFSTemplate ----
\* is_next_componenet with the test inverted
is_next_componenet_inverted(vl, x) == vl[x] = VISITED

\* is_next_componenet answering True for every vertex
is_next_componenet_always(vl, x) == TRUE

\* BFSTemplate.is_next_componenet(v)
is_next_componenet(vl, x) == vl[x] = UNEXPLORED

\* BFSTemplate.result(): the label dictionaries, the vertices keyed by element
\* and the edges keyed by repr(e) (modelled by the endpoint pair it prints)
result(vl, el) == [vertices |-> vl, edges |-> el]

\* line 147 left out
label_seed_missing(vl, x) == vl

\* line 147: self.vertex_labels[s] = VISITED
label_seed(vl, x) == [vl EXCEPT ![x] = VISITED]

\* line 158: the test self.vertex_labels[w] == UNEXPLORED
is_unexplored_vertex(vl, x) == vl[x] = UNEXPLORED

\* line 160 left out
label_discovery_missing(el, e) == el

\* line 160: self.edge_labels[e] = DISCOVERY
label_discovery(el, e) == [el EXCEPT ![EdgeKey(e)] = DISCOVERY]

\* line 161 left out
label_discovered_missing(vl, x) == vl

\* line 161: self.vertex_labels[w] = VISITED
label_discovered(vl, x) == [vl EXCEPT ![x] = VISITED]

\* line 162: q.append(w)
append(queue, x) == Append(queue, x)

\* line 164 written as a plain else
is_unexplored_edge_always(el, e) == TRUE

\* line 164: the test self.edge_labels[e] == UNEXPLORED
is_unexplored_edge(el, e) == el[EdgeKey(e)] = UNEXPLORED

\* line 165 left out
label_cross_missing(el, e) == el

\* line 165: self.edge_labels[e] = CROSS
label_cross(el, e) == [el EXCEPT ![EdgeKey(e)] = CROSS]

\* the entry of incident_edges(v) the inner loop is at, and w of line 155
CurE == incident_edges(adjacency_map, v)[k]
CurW == opposite(v, CurE)

Log(name, args) == hook_log' = Append(hook_log, Hook(name, args))

\* lines 133-134 keeping the label of a vertex that already has one
init_vertex_labels_keep(vl, vm) ==
    [x \in Range(vertices(vm)) |-> IF x \in DOMAIN vl THEN vl[x] ELSE UNEXPLORED]

\* lines 133-134: for v in self.graph.vertices(): self.vertex_labels[v] = UNEXPLORED
\* (the graph only grows, so every key of the dictionary is written)
init_vertex_labels(vl, vm) == [x \in Range(vertices(vm)) |-> UNEXPLORED]

\* lines 135-136 keeping the label of an edge that already has one
init_edge_labels_keep(el, am) ==
    [e \in edges(am) |-> IF e \in DOMAIN el THEN el[e] ELSE UNEXPLORED]

\* lines 135-136: for e in self.graph.edges(): self.edge_labels[e] = UNEXPLORED
init_edge_labels(el, am) == [e \in edges(am) |-> UNEXPLORED]

\* bfs() is entered: line 132, self.init_result()
CallBfs ==
    /\ pc = "build"
    /\ pc' = "init_result"
    /\ Log("init_result", <<>>)
    /\ UNCHANGED <<other_vars, graph_vars, label_vars, idx, s, q, v, k, enq_log, ret>>

\* lines 133-136: both label dictionaries are filled with UNEXPLORED
InitLabels ==
    /\ pc = "init_result"
    /\ vertex_labels' = init_vertex_labels(vertex_labels, vertices_map)
    /\ edge_labels' = init_edge_labels(edge_labels, adjacency_map)
    /\ idx' = 1
    /\ pc' = "scan"
    /\ UNCHANGED <<other_vars, graph_vars, s, q, v, k, hook_log, enq_log, ret>>

\* lines 137-139: one iteration of the outer loop, up to pre_component_visit(v)
ScanVertex ==
    /\ pc = "scan"
    /\ idx <= Len(vertices(vertices_map))
    /\ LET x == vertices(vertices_map)[idx]
       IN  IF is_next_componenet(vertex_labels, x)
           THEN /\ s' = x
                /\ pc' = "pre_component_visit"
                /\ Log("pre_component_visit", <<x>>)
                /\ UNCHANGED idx
           ELSE /\ idx' = idx + 1
                /\ UNCHANGED <<s, pc, hook_log>>
    /\ UNCHANGED <<other_vars, graph_vars, label_vars, q, v, k, enq_log, ret>>

\* _bfs_component entered without the call of start_bfs_component(s)
StartComponent_NoHook ==
    /\ pc = "pre_component_visit"
    /\ pc' = "start_bfs_component"
    /\ UNCHANGED <<other_vars, graph_vars, label_vars, idx, s, q, v, k, hook_log, enq_log, ret>>

\* lines 140, 146: _bfs_component(s) is entered, start_bfs_component(s)
StartComponent ==
    /\ pc = "pre_component_visit"
    /\ pc' = "start_bfs_component"
    /\ Log("start_bfs_component", <<s>>)
    /\ UNCHANGED <<other_vars, graph_vars, label_vars, idx, s, q, v, k, enq_log, ret>>

\* lines 147-148: the seed is labeled and the queue created
SeedComponent ==
    /\ pc = "start_bfs_component"
    /\ vertex_labels' = label_seed(vertex_labels, s)
    /\ q' = <<s>>
    /\ enq_log' = Append(enq_log, s)
    /\ pc' = "while"
    /\ UNCHANGED <<other_vars, graph_vars, edge_labels, idx, s, v, k, hook_log, ret>>

\* q.pop() in place of q.popleft()
popleft_lifo(queue) ==
    [item |-> queue[Len(queue)], rest |-> SubSeq(queue, 1, Len(queue) - 1)]

\* q.popleft()
popleft(queue) == [item |-> Head(queue), rest |-> Tail(queue)]

\* lines 150-152 and 170: the test of `while q`, then either popleft and
\* pre_vertex_visit(v) or finish_bfs_component(s)
WhileQueue ==
    /\ pc \in {"while", "post_vertex_visit"}
    /\ IF q # <<>>
       THEN /\ v' = popleft(q).item
            /\ q' = popleft(q).rest
            /\ k' = 0
            /\ pc' = "pre_vertex_visit"
            /\ Log("pre_vertex_visit", <<popleft(q).item>>)
       ELSE /\ pc' = "finish_bfs_component"
            /\ Log("finish_bfs_component", <<s>>)
            /\ UNCHANGED <<v, q, k>>
    /\ UNCHANGED <<other_vars, graph_vars, label_vars, idx, s, enq_log, ret>>

\* lines 154-156 and 168: the inner loop advances to entry n of
\* incident_edges(v) and calls pre_edge_visit(v, w, e), or the loop is over
\* and post_vertex_visit(v) is called
ForEdge(n) ==
    LET inc == incident_edges(adjacency_map, v)
    IN  IF n <= Len(inc)
        THEN /\ k' = n
             /\ pc' = "pre_edge_visit"
             /\ Log("pre_edge_visit", <<v, opposite(v, inc[n]), inc[n]>>)
        ELSE /\ pc' = "post_vertex_visit"
             /\ Log("post_vertex_visit", <<v>>)
             /\ UNCHANGED k

\* a hook called inside the loop body returns and the loop goes on
NextEdge ==
    /\ pc \in {"pre_vertex_visit", "post_disc_edge_visit", "cross_edge_visit"}
    /\ ForEdge(k + 1)
    /\ UNCHANGED <<other_vars, graph_vars, label_vars, idx, s, q, v, enq_log, ret>>

\* lines 158-159, 164-166: the classification of the entry after pre_edge_visit
ClassifyEdge ==
    /\ pc = "pre_edge_visit"
    /\ IF is_unexplored_vertex(vertex_labels, CurW)
       THEN /\ pc' = "pre_disc_edge_visit"
            /\ Log("pre_disc_edge_visit", <<v, CurW, CurE>>)
            /\ UNCHANGED <<edge_labels, k>>
       ELSE IF is_unexplored_edge(edge_labels, CurE)
            THEN /\ edge_labels' = label_cross(edge_labels, CurE)
                 /\ pc' = "cross_edge_visit"
                 /\ Log("cross_edge_visit", <<v, CurW, CurE>>)
                 /\ UNCHANGED k
            ELSE /\ ForEdge(k + 1)
                 /\ UNCHANGED edge_labels
    /\ UNCHANGED <<other_vars, graph_vars, vertex_labels, idx, s, q, v, enq_log, ret>>

\* the discovery step consuming the entry of the edge in w's adjacency list
DiscoverEdge_PopsEntry ==
    /\ pc = "pre_disc_edge_visit"
    /\ edge_labels' = label_discovery(edge_labels, CurE)
    /\ vertex_labels' = label_discovered(vertex_labels, CurW)
    /\ q' = append(q, CurW)
    /\ enq_log' = Append(enq_log, CurW)
    /\ adjacency_map' = [adjacency_map EXCEPT ![CurW] = Tail(@)]
    /\ pc' = "post_disc_edge_visit"
    /\ Log("post_disc_edge_visit", <<v, CurW, CurE>>)
    /\ UNCHANGED <<other_vars, vertices_map, calls, idx, s, v, k, ret>>

\* lines 160-163: the discovery edge is labeled, w labeled and appended,
\* post_disc_edge_visit(v, w, e)
DiscoverEdge ==
    /\ pc = "pre_disc_edge_visit"
    /\ edge_labels' = label_discovery(edge_labels, CurE)
    /\ vertex_labels' = label_discovered(vertex_labels, CurW)
    /\ q' = append(q, CurW)
    /\ enq_log' = Append(enq_log, CurW)
    /\ pc' = "post_disc_edge_visit"
    /\ Log("post_disc_edge_visit", <<v, CurW, CurE>>)
    /\ UNCHANGED <<other_vars, graph_vars, idx, s, v, k, ret>>

\* line 141: _bfs_component returns, post_component_visit(v)
FinishComponent ==
    /\ pc = "finish_bfs_component"
    /\ pc' = "post_component_visit"
    /\ Log("post_component_visit", <<s>>)
    /\ UNCHANGED <<other_vars, graph_vars, label_vars, idx, s, q, v, k, enq_log, ret>>

\* line 137: the outer loop goes on after post_component_visit
NextVertex ==
    /\ pc = "post_component_visit"
    /\ idx' = idx + 1
    /\ pc' = "scan"
    /\ UNCHANGED <<other_vars, graph_vars, label_vars, s, q, v, k, hook_log, enq_log, ret>>

\* bfs() leaving early, without result(), when the graph has no vertex
CallResult_SkipEmpty ==
    /\ pc = "scan"
    /\ idx > Len(vertices(vertices_map))
    /\ pc' = "result"
    /\ IF vertices_map = <<>> THEN UNCHANGED hook_log ELSE Log("result", <<>>)
    /\ UNCHANGED <<other_vars, graph_vars, label_vars, idx, s, q, v, k, enq_log, ret>>

\* line 142: the outer loop is over, self.result() is called
CallResult ==
    /\ pc = "scan"
    /\ idx > Len(vertices(vertices_map))
    /\ pc' = "result"
    /\ Log("result", <<>>)
    /\ UNCHANGED <<other_vars, graph_vars, label_vars, idx, s, q, v, k, enq_log, ret>>

\* line 142: bfs() returns what result() returned
ReturnBfs ==
    /\ pc = "result"
    /\ ret' = result(vertex_labels, edge_labels)
    /\ pc' = "done"
    /\ UNCHANGED <<other_vars, graph_vars, label_vars, idx, s, q, v, k, hook_log, enq_log>>

Next ==
    \/ \E element \in Elements : InsertVertex(element)
    \/ \E a, b \in Elements : InsertEdge(a, b)
    \/ CallBfs
    \/ InitLabels
    \/ ScanVertex
    \/ StartComponent
    \/ SeedComponent
    \/ WhileQueue
    \/ NextEdge
    \/ ClassifyEdge
    \/ DiscoverEdge
    \/ FinishComponent
    \/ NextVertex
    \/ CallResult
    \/ ReturnBfs

Spec == Init /\ [][Next]_vars

\* ---- graph-theoretic reference notions used by the properties ----
Verts == Range(vertices_map)

\* insertion rank of a vertex
Pos(x) == CHOOSE i \in 1..Len(vertices_map) : vertices_map[i] = x

\* the endpoints vertex x is joined to by an edge
Neighbours(x) == UNION {EdgeKey(e) : e \in Range(adjacency_map[x])} \ {x}

RECURSIVE Closure(_)
Closure(S) ==
    LET N == S \cup UNION {Neighbours(x) : x \in S}
    IN  IF N = S THEN S ELSE Closure(N)

\* the connected component of x, and all connected components
ComponentOf(x) == Closure({x})
Components == {ComponentOf(x) : x \in Verts}

\* the hook calls of one name, in call order
Calls(name) == SelectSeq(hook_log, LAMBDA h : h.hook = name)

\* the arguments s of the pre_component_visit calls, in call order
Seeds == [i \in 1..Len(Calls("pre_component_visit")) |->
            Calls("pre_component_visit")[i].args[1]]

\* the vertices popped from the queue (pre_vertex_visit fires on each pop)
DeqLog == [i \in 1..Len(Calls("pre_vertex_visit")) |->
            Calls("pre_vertex_visit")[i].args[1]]

NoDuplicates(seq) == \A i, j \in 1..Len(seq) : seq[i] = seq[j] => i = j

Returned == pc = "done"
InRun == pc \notin {"build", "init_result"}

\* ---- C1 ----
\* C1: when bfs() returns, every vertex of the graph is labeled VISITED and
\* every Edge object of every adjacency list is labeled DISCOVERY or CROSS;
\* nothing is left UNEXPLORED, and the returned result says the same.
C1_Coverage ==
    Returned =>
        /\ DOMAIN vertex_labels = Verts
        /\ \A x \in Verts : vertex_labels[x] = VISITED
        /\ \A e \in EdgeObjects(adjacency_map) :
              /\ EdgeKey(e) \in DOMAIN edge_labels
              /\ edge_labels[EdgeKey(e)] \in {DISCOVERY, CROSS}
        /\ \A x \in DOMAIN ret.vertices : ret.vertices[x] # UNEXPLORED
        /\ \A e \in DOMAIN ret.edges : ret.edges[e] # UNEXPLORED

\* a run has returned on a graph with two components, one of them with an edge
C1_Witness ==
    /\ Returned
    /\ Cardinality(Components) = 2
    /\ \E e \in DOMAIN edge_labels : edge_labels[e] = DISCOVERY

\* ---- C2 ----
\* C2: when bfs() returns, every connected component with n vertices has
\* exactly n - 1 edges labeled DISCOVERY and all its other edges labeled CROSS
\* (an edge is an element of Graph.edges(), one per unordered endpoint pair).
C2_SpanningTreeCount ==
    Returned =>
        \A C \in Components :
            LET CE == {e \in edges(adjacency_map) : e \subseteq C}
                disc == {e \in CE : edge_labels[e] = DISCOVERY}
            IN  /\ Cardinality(disc) = Cardinality(C) - 1
                /\ \A e \in CE \ disc : edge_labels[e] = CROSS

\* a run has returned on a triangle: 3 vertices, 2 DISCOVERY edges, 1 CROSS
C2_Witness ==
    /\ Returned
    /\ Cardinality(Verts) = 3
    /\ Cardinality(Components) = 1
    /\ Cardinality(edges(adjacency_map)) = 3
    /\ \E e \in DOMAIN edge_labels : edge_labels[e] = CROSS

\* ---- C3 ----
\* C3: pre_component_visit is called once per connected component: the seeds
\* passed to it lie in pairwise different components at every moment, and
\* when bfs() returns there are as many calls as connected components.
C3_ComponentCount ==
    /\ \A i, j \in 1..Len(Seeds) :
          ComponentOf(Seeds[i]) = ComponentOf(Seeds[j]) => i = j
    /\ Returned =>
          /\ Len(Seeds) = Cardinality(Components)
          /\ {ComponentOf(Seeds[i]) : i \in 1..Len(Seeds)} = Components

\* a run has returned on a graph with an isolated vertex and a two-vertex
\* component
C3_Witness ==
    /\ Returned
    /\ Cardinality(Components) = 2
    /\ Cardinality(Verts) = 3
    /\ \E x \in Verts : adjacency_map[x] = <<>>

\* ---- C4 ----
\* C4: no vertex is ever put into the queue twice in one run, and when bfs()
\* returns every vertex has been put into it exactly once.
C4_NoDuplicateEnqueue ==
    /\ NoDuplicates(enq_log)
    /\ Returned => /\ Range(enq_log) = Verts
                   /\ Len(enq_log) = Cardinality(Verts)

\* a vertex is in the queue while a second Edge object leading to it (a
\* parallel edge or the entry of another neighbour) is examined
C4_Witness ==
    /\ pc = "pre_edge_visit"
    /\ CurW \in Range(q)
    /\ CurW # v

\* ---- C5 ----
\* C5: once the labels are initialized, a step of the run changes an edge
\* label only from UNEXPLORED to DISCOVERY or from UNEXPLORED to CROSS, so a
\* label changes at most once and DISCOVERY and CROSS are final.
C5_EdgeLabelOnce ==
    [][InRun =>
        /\ DOMAIN edge_labels' = DOMAIN edge_labels
        /\ \A e \in DOMAIN edge_labels :
              edge_labels'[e] # edge_labels[e] =>
                  /\ edge_labels[e] = UNEXPLORED
                  /\ edge_labels'[e] \in {DISCOVERY, CROSS}]_vars

\* an edge already labeled DISCOVERY is examined again, from its other endpoint
\* or through a parallel Edge object
C5_Witness ==
    /\ pc = "pre_edge_visit"
    /\ edge_labels[EdgeKey(CurE)] = DISCOVERY

\* ---- C6 ----
\* C6: during a run every vertex that is in the queue or was popped from it is
\* labeled VISITED, and no step of the run takes a VISITED label away.
C6_VisitedAtEnqueue ==
    /\ [](InRun => \A x \in Range(q) \cup Range(DeqLog) : vertex_labels[x] = VISITED)
    /\ [][InRun =>
            \A x \in DOMAIN vertex_labels :
                vertex_labels[x] = VISITED => vertex_labels'[x] = VISITED]_vars

\* a discovered vertex waits in the queue behind another one while the vertex
\* that discovered them is still being scanned
C6_Witness ==
    /\ pc = "post_disc_edge_visit"
    /\ Len(q) >= 2
    /\ Len(DeqLog) >= 1

\* ---- C7 ----
\* C7: the vertices are popped in the order in which they were put into the
\* queue (the popped vertices are a prefix of the enqueued ones and the queue
\* holds the rest, in order); on the path graph 1-2-3-4 with seed 1 the pop
\* order of the finished run is 1, 2, 3, 4.
IsPrefix(a, b) == Len(a) <= Len(b) /\ \A i \in 1..Len(a) : a[i] = b[i]

Path1234 ==
    /\ Verts = {1, 2, 3, 4}
    /\ vertices_map[1] = 1
    /\ Cardinality(EdgeObjects(adjacency_map)) = 3
    /\ edges(adjacency_map) = {{1, 2}, {2, 3}, {3, 4}}

C7_FifoOrder ==
    /\ IsPrefix(DeqLog, enq_log)
    /\ InRun => q = SubSeq(enq_log, Len(DeqLog) + 1, Len(enq_log))
    /\ (Returned /\ Path1234) => DeqLog = <<1, 2, 3, 4>>

\* a run over the path graph 1-2-3-4 seeded at 1 has returned
C7_Witness == Returned /\ Path1234

\* ---- C8 ----
\* C8: every seed passed to pre_component_visit is the earliest-inserted
\* vertex of its component, the seeds come in increasing insertion order,
\* and a seed is UNEXPLORED when pre_component_visit is called with it.
C8_ComponentStartOrder ==
    /\ \A i \in 1..Len(Seeds) :
          \A x \in ComponentOf(Seeds[i]) : Pos(Seeds[i]) <= Pos(x)
    /\ \A i, j \in 1..Len(Seeds) : i < j => Pos(Seeds[i]) < Pos(Seeds[j])
    /\ pc = "pre_component_visit" =>
          /\ Seeds[Len(Seeds)] = s
          /\ vertex_labels[s] = UNEXPLORED

\* a second component starts after the scan has passed over a vertex that the
\* first component had labeled VISITED
C8_Witness ==
    /\ pc = "pre_component_visit"
    /\ Len(Seeds) = 2
    /\ Pos(s) > 2
    /\ \E x \in Verts : Pos(x) < Pos(s) /\ x # Seeds[1] /\ vertex_labels[x] = VISITED

\* ---- C9 ----
\* the seed of the component that hook call number i belongs to
SeedAt(i) ==
    LET js == {j \in 1..i : hook_log[j].hook = "pre_component_visit"}
        last == CHOOSE j \in js : \A j2 \in js : j2 <= j
    IN  hook_log[last].args[1]

\* hook call b may directly follow hook call a in a component seeded at sd
Follows(a, b, sd) ==
    LET SameVertexNext ==
            \/ b.hook = "pre_edge_visit" /\ b.args[1] = a.args[1]
            \/ b = Hook("post_vertex_visit", <<a.args[1]>>)
    IN  CASE a.hook = "init_result" ->
                b.hook \in {"pre_component_visit", "result"}
          [] a.hook = "pre_component_visit" ->
                b = Hook("start_bfs_component", a.args)
          [] a.hook = "start_bfs_component" ->
                b = Hook("pre_vertex_visit", a.args)
          [] a.hook = "pre_vertex_visit" ->
                SameVertexNext
          [] a.hook = "pre_edge_visit" ->
                \/ b = Hook("pre_disc_edge_visit", a.args)
                \/ b = Hook("cross_edge_visit", a.args)
                \/ SameVertexNext
          [] a.hook = "pre_disc_edge_visit" ->
                b = Hook("post_disc_edge_visit", a.args)
          [] a.hook \in {"post_disc_edge_visit", "cross_edge_visit"} ->
                SameVertexNext
          [] a.hook = "post_vertex_visit" ->
                \/ b.hook = "pre_vertex_visit"
                \/ b = Hook("finish_bfs_component", <<sd>>)
          [] a.hook = "finish_bfs_component" ->
                b = Hook("post_component_visit", a.args)
          [] a.hook = "post_component_visit" ->
                b.hook \in {"pre_component_visit", "result"}
          [] OTHER -> FALSE

\* the pre_edge_visit calls made between hook calls number p and i
EdgeCallsBetween(p, i) ==
    SelectSeq(SubSeq(hook_log, p + 1, i - 1), LAMBDA h : h.hook = "pre_edge_visit")

\* the scan of a vertex, closed by post_vertex_visit at call number i, has
\* called pre_edge_visit for the entries of its adjacency list, in list order
ScanComplete(i) ==
    LET x == hook_log[i].args[1]
        ps == {j \in 1..i : hook_log[j].hook = "pre_vertex_visit"}
        p == CHOOSE j \in ps : \A j2 \in ps : j2 <= j
        E == EdgeCallsBetween(p, i)
    IN  /\ hook_log[p].args = <<x>>
        /\ Len(E) = Len(adjacency_map[x])
        /\ \A n \in 1..Len(E) :
              /\ E[n].args[3] = adjacency_map[x][n]
              /\ EdgeKey(E[n].args[3]) = {x, E[n].args[2]}

\* C9: the hook calls follow the protocol pre_component_visit(s),
\* start_bfs_component(s), then per popped vertex pre_vertex_visit(v), the
\* edge hooks of the entries of v's adjacency list, post_vertex_visit(v),
\* then finish_bfs_component(s), post_component_visit(s); every hook called
\* inside a component is about a vertex of that component; result() is
\* called once, last, after the last post_component_visit.
C9_HookProtocol ==
    /\ hook_log # <<>> => hook_log[1].hook = "init_result"
    /\ \A i \in 1..(Len(hook_log) - 1) :
          Follows(hook_log[i], hook_log[i + 1],
                  IF hook_log[i].hook = "post_vertex_visit" THEN SeedAt(i) ELSE 0)
    /\ \A i \in 1..Len(hook_log) :
          /\ hook_log[i].hook = "post_vertex_visit" => ScanComplete(i)
          /\ hook_log[i].hook \notin {"init_result", "result"} =>
                hook_log[i].args[1] \in ComponentOf(SeedAt(i))
    /\ Len(Calls("result")) <= 1
    /\ Returned =>
          /\ hook_log[Len(hook_log)].hook = "result"
          /\ Len(Calls("result")) = 1
          /\ Len(Calls("post_component_visit")) = Len(Seeds)

\* result() is being called after two components were traversed, one of them
\* through a discovery edge
C9_Witness ==
    /\ pc = "result"
    /\ Len(Calls("post_component_visit")) = 2
    /\ Len(Calls("post_disc_edge_visit")) >= 1

\* ---- C10 ----
\* the label of the Edge object the inner loop is at
CurLabel == edge_labels[EdgeKey(CurE)]

\* C10: pre_edge_visit(v, w, e) precedes the classification of an entry; when
\* w is UNEXPLORED, pre_disc_edge_visit is called with w and e still
\* UNEXPLORED and post_disc_edge_visit with e DISCOVERY and w VISITED and in
\* the queue; otherwise, when e is UNEXPLORED, cross_edge_visit is called with
\* e already CROSS and both endpoints VISITED; otherwise the labels stay as
\* they are and the next hook called belongs to the next entry or closes the
\* scan of v.
C10_EdgeClassification ==
    /\ [](/\ pc = "pre_disc_edge_visit" =>
                /\ vertex_labels[CurW] = UNEXPLORED
                /\ CurLabel = UNEXPLORED
          /\ pc = "post_disc_edge_visit" =>
                /\ CurLabel = DISCOVERY
                /\ vertex_labels[CurW] = VISITED
                /\ CurW \in Range(q)
          /\ pc = "cross_edge_visit" =>
                /\ CurLabel = CROSS
                /\ \A x \in EdgeKey(CurE) : vertex_labels[x] = VISITED
          /\ pc \in {"pre_edge_visit", "pre_disc_edge_visit",
                     "post_disc_edge_visit", "cross_edge_visit"} =>
                hook_log[Len(hook_log)] = Hook(pc, <<v, CurW, CurE>>)
          /\ \A i \in 1..Len(hook_log) :
                hook_log[i].hook \in {"pre_disc_edge_visit", "cross_edge_visit"} =>
                    /\ i > 1
                    /\ hook_log[i - 1] = Hook("pre_edge_visit", hook_log[i].args))
    /\ [][pc = "pre_edge_visit" =>
            IF vertex_labels[CurW] = UNEXPLORED
            THEN /\ pc' = "pre_disc_edge_visit"
                 /\ UNCHANGED <<label_vars, q>>
            ELSE IF CurLabel = UNEXPLORED
                 THEN /\ pc' = "cross_edge_visit"
                      /\ UNCHANGED <<vertex_labels, q>>
                 ELSE /\ UNCHANGED <<label_vars, q, enq_log>>
                      /\ pc' \in {"pre_edge_visit", "post_vertex_visit"}
                      /\ pc' = "pre_edge_visit" => k' = k + 1
                      /\ hook_log' = Append(hook_log, hook_log'[Len(hook_log')])
                      /\ hook_log'[Len(hook_log')].hook = pc']_vars

\* cross_edge_visit is being called for an edge that closes a cycle
C10_Witness ==
    /\ pc = "cross_edge_visit"
    /\ CurW # v
    /\ \E e \in DOMAIN edge_labels : edge_labels[e] = DISCOVERY

\* ---- the run under the scheduling of sequential code ----
\* a step of bfs() once it has been called
BfsStep ==
    \/ InitLabels
    \/ ScanVertex
    \/ StartComponent
    \/ SeedComponent
    \/ WhileQueue
    \/ NextEdge
    \/ ClassifyEdge
    \/ DiscoverEdge
    \/ FinishComponent
    \/ NextVertex
    \/ CallResult
    \/ ReturnBfs

\* bfs() is ordinary sequential code with hooks that return: once called it
\* keeps executing its next statement
FairSpec == Spec /\ WF_vars(BfsStep)

\* ---- C13 ----
IsLoop(e) == e.endpoints[1] = e.endpoints[2]
LoopEdges == {e \in EdgeObjects(adjacency_map) : IsLoop(e)}

\* the cross_edge_visit calls made for the edge with endpoint set key
CrossCalls(key) ==
    SelectSeq(hook_log, LAMBDA h : h.hook = "cross_edge_visit" /\ EdgeKey(h.args[3]) = key)

Occurrences(seq, x) == Cardinality({i \in 1..Len(seq) : seq[i] = x})

\* C13: in a run over a graph with a self-loop X-X the loop edge is never
\* labeled DISCOVERY and cross_edge_visit is called for it at most once; when
\* bfs() returns the loop is labeled CROSS, cross_edge_visit was called for it
\* exactly once and X was put into the queue exactly once; and the run, once
\* called, does return.
C13_SelfLoop ==
    /\ [](InRun =>
            \A e \in LoopEdges :
                /\ edge_labels[EdgeKey(e)] \in {UNEXPLORED, CROSS}
                /\ Len(CrossCalls(EdgeKey(e))) <= 1
                /\ Occurrences(enq_log, e.endpoints[1]) <= 1
                /\ Returned =>
                      /\ edge_labels[EdgeKey(e)] = CROSS
                      /\ Len(CrossCalls(EdgeKey(e))) = 1
                      /\ Occurrences(enq_log, e.endpoints[1]) = 1)
    /\ ((pc = "init_result" /\ LoopEdges # {}) ~> Returned)

\* the second entry that the self-loop put into the adjacency list of X is
\* examined after the first one labeled the loop CROSS
C13_Witness ==
    /\ pc = "pre_edge_visit"
    /\ IsLoop(CurE)
    /\ edge_labels[EdgeKey(CurE)] = CROSS

\* ---- C14 ----
\* C14: a run over a graph without vertices calls no hook but init_result and
\* result, puts nothing into the queue, returns, and has then called result()
\* exactly once and returned empty label dictionaries.
C14_EmptyGraph ==
    /\ []((vertices_map = <<>> /\ InRun) =>
            /\ \A i \in 1..Len(hook_log) : hook_log[i].hook \in {"init_result", "result"}
            /\ enq_log = <<>>
            /\ DOMAIN vertex_labels = {} /\ DOMAIN edge_labels = {}
            /\ Returned =>
                  /\ hook_log = <<Hook("init_result", <<>>), Hook("result", <<>>)>>
                  /\ DOMAIN ret.vertices = {} /\ DOMAIN ret.edges = {})
    /\ ((pc = "init_result" /\ vertices_map = <<>>) ~> Returned)

\* bfs() has returned on the graph without vertices
C14_Witness == Returned /\ vertices_map = <<>> /\ Len(hook_log) = 2

\* ---- C17 ----
\* C17: every Edge object occurs exactly once in the adjacency list of each
\* vertex that is one of its endpoints and in no other adjacency list.
C17_AdjacencyInvariant ==
    \A e \in EdgeObjects(adjacency_map) :
        \A x \in Verts :
            Occurrences(adjacency_map[x], e) = IF x \in EdgeKey(e) THEN 1 ELSE 0

\* ---- C18 ----
\* C18: on every graph the caller can build, insert_vertex of an element that
\* is already a vertex leaves the vertex order and every adjacency list as
\* they are, and inserting any element twice gives the graph that inserting
\* it once gives.
C18_InsertVertexIdempotent ==
    pc = "build" =>
        \A element \in Elements :
            LET once == insert_vertex(Graph, element)
            IN  /\ element \in Verts => once = Graph
                /\ insert_vertex(once, element) = once
                /\ element \in Range(once.vm)

\* insert_edge has called insert_vertex for two vertices that already had
\* edges in their adjacency lists
C18_Witness ==
    /\ pc = "build"
    /\ calls = 2
    /\ NumEdgeObjects = 2
    /\ Len(vertices_map) = 2

\* ---- C19 ----
\* C19: no step of a bfs() run changes the vertex map or an adjacency list.
C19_GraphReadOnly ==
    [][pc # "build" => UNCHANGED <<vertices_map, adjacency_map>>]_vars

\* a run over a graph with edges has returned with labels assigned
C19_Witness ==
    /\ Returned
    /\ NumEdgeObjects >= 2
    /\ \A x \in Verts : vertex_labels[x] = VISITED

\* ---- bfs() called again on the same BFSTemplate instance ----
\* the number of bfs() calls made so far
RunNumber == Len(Calls("init_result"))

\* bfs() is entered again after it has returned: line 132
CallBfsAgain ==
    /\ pc = "done"
    /\ RunNumber < MaxRuns
    /\ pc' = "init_result"
    /\ Log("init_result", <<>>)
    /\ UNCHANGED <<other_vars, graph_vars, label_vars, idx, s, q, v, k, enq_log, ret>>

NextRerun == Next \/ CallBfsAgain

SpecRerun == Init /\ [][NextRerun]_vars

\* the positions of the init_result calls in the hook log
RunStarts == {i \in 1..Len(hook_log) : hook_log[i].hook = "init_result"}

\* the hook calls of run number n, up to now
RunLog(n) ==
    LET first == CHOOSE i \in RunStarts :
                    Cardinality({j \in RunStarts : j <= i}) = n
        later == {i \in RunStarts : i > first}
        last == IF later = {} THEN Len(hook_log)
                ELSE (CHOOSE i \in later : \A j \in later : i <= j) - 1
    IN  SubSeq(hook_log, first, last)

\* ---- C11 ----
\* C11: a later bfs() run over the same graph with the same hooks makes the
\* hook calls of the first run, in the same order and with the same
\* arguments, reaches result() with the vertex and edge labels the first run
\* returned, and returns the same result.
C11_Determinism ==
    /\ [](RunNumber >= 2 =>
            /\ IsPrefix(RunLog(RunNumber), RunLog(1))
            /\ pc \in {"result", "done"} =>
                  /\ RunLog(RunNumber) = RunLog(1)
                  /\ vertex_labels = ret.vertices
                  /\ edge_labels = ret.edges)
    /\ [][(RunNumber >= 2 /\ pc = "result") => ret' = ret]_vars

\* a second run over a graph with a cross edge has returned
C11_Witness ==
    /\ Returned
    /\ RunNumber = 2
    /\ \E e \in DOMAIN edge_labels : edge_labels[e] = CROSS
    /\ \E e \in DOMAIN edge_labels : edge_labels[e] = DISCOVERY

\* ---- C12 ----
\* the traversal of a run after the first is about to start: the labels are
\* initialized and the first vertex has not been looked at
SecondTraversalStarts ==
    /\ RunNumber >= 2
    /\ pc = "scan"
    /\ idx = 1
    /\ hook_log[Len(hook_log)].hook = "init_result"
    /\ vertices_map # <<>>

\* C12 as claimed: the traversal of the second run starts from the labels the
\* first run left, not from an all-UNEXPLORED Label Store.
C12_LabelsLeftByFirstRun ==
    SecondTraversalStarts =>
        /\ vertex_labels = ret.vertices
        /\ edge_labels = ret.edges

\* C12 as amended: between two runs the Label Store holds the labels the
\* first run left, and bfs() itself reinitializes it: the traversal of the
\* second run starts with every vertex and every edge UNEXPLORED.
C12_LabelsReinitialized ==
    /\ Returned =>
          /\ vertex_labels = ret.vertices
          /\ edge_labels = ret.edges
    /\ SecondTraversalStarts =>
          /\ DOMAIN vertex_labels = Verts
          /\ \A x \in Verts : vertex_labels[x] = UNEXPLORED
          /\ DOMAIN edge_labels = edges(adjacency_map)
          /\ \A e \in edges(adjacency_map) : edge_labels[e] = UNEXPLORED

\* the second run is about to scan a graph whose labels the first run had
\* all set
C12_Witness ==
    /\ SecondTraversalStarts
    /\ \A x \in Verts : ret.vertices[x] = VISITED
    /\ \E e \in DOMAIN ret.edges : ret.edges[e] = DISCOVERY

\* ---- a hook that raises ----
\* the positions at which a hook is executing
HookPcs ==
    {"init_result", "pre_component_visit", "start_bfs_component",
     "pre_vertex_visit", "pre_edge_visit", "pre_disc_edge_visit",
     "post_disc_edge_visit", "cross_edge_visit", "post_vertex_visit",
     "finish_bfs_component", "post_component_visit", "result"}

\* the failure handled by a cleanup that sets every label back to UNEXPLORED
HookRaises_Rollback ==
    /\ pc \in HookPcs
    /\ pc' = "raised"
    /\ vertex_labels' = [x \in DOMAIN vertex_labels |-> UNEXPLORED]
    /\ edge_labels' = [e \in DOMAIN edge_labels |-> UNEXPLORED]
    /\ UNCHANGED <<other_vars, graph_vars, idx, s, q, v, k, hook_log, enq_log, ret>>

\* the hook being executed raises: neither _bfs_component nor bfs() has a
\* try statement, so the exception leaves bfs() at once
HookRaises ==
    /\ pc \in HookPcs
    /\ pc' = "raised"
    /\ UNCHANGED <<other_vars, graph_vars, label_vars, idx, s, q, v, k, hook_log, enq_log, ret>>

NextFail == Next \/ HookRaises

SpecFail == Init /\ [][NextFail]_vars

\* ---- C15 ----
Raised == pc = "raised"

\* C15: when a hook raises, the labels, the hook log and the queue log stay as
\* they were when the hook was called, bfs() returns nothing, and nothing
\* happens afterwards: no hook is called, no label changes, result() is not
\* called (unless result() itself was the hook that raised).
C15_HookFailure ==
    /\ [][Raised' => UNCHANGED <<label_vars, hook_log, enq_log, ret,
                                 vertices_map, adjacency_map>>]_vars
    /\ [][Raised => Raised']_vars
    /\ [](Raised =>
            /\ ret = [vertices |-> EmptyDict, edges |-> EmptyDict]
            /\ \A i \in 1..Len(hook_log) :
                  hook_log[i].hook = "result" => i = Len(hook_log)
            /\ \A x \in DOMAIN vertex_labels : vertex_labels[x] \in {UNEXPLORED, VISITED}
            /\ \A e \in DOMAIN edge_labels :
                  edge_labels[e] \in {UNEXPLORED, DISCOVERY, CROSS})

\* cross_edge_visit has raised in the first component of a graph whose second
\* component is still unexplored: the Label Store is partially filled
C15_Witness ==
    /\ Raised
    /\ hook_log[Len(hook_log)].hook = "cross_edge_visit"
    /\ \E e \in DOMAIN edge_labels : edge_labels[e] = CROSS
    /\ \E x \in DOMAIN vertex_labels : vertex_labels[x] = UNEXPLORED

\* ---- the caller using Graph.opposite directly ----
\* the caller's g.opposite(x, e) for a vertex and an Edge object of the graph:
\* lines 88-89 have no raise statement, the call returns what opposite computes
CallOpposite(x, e) ==
    /\ pc = "build"
    /\ x \in Range(vertices_map)
    /\ e \in EdgeObjects(adjacency_map)
    /\ opp' = [called |-> TRUE, v |-> x, e |-> e,
               kind |-> "return", value |-> opposite(x, e)]
    /\ UNCHANGED <<seq_vars, tree_vars, graph_vars, pc, bfs_vars>>

NextGraphApi ==
    \/ \E element \in Elements : InsertVertex(element)
    \/ \E a, b \in Elements : InsertEdge(a, b)
    \/ \E x \in Elements, e \in EdgeObjects(adjacency_map) : CallOpposite(x, e)

SpecGraphApi == Init /\ [][NextGraphApi]_vars

\* ---- C16 ----
\* C16: opposite(v, e) returns the other endpoint of e when v is an endpoint
\* of e, and signals an error instead of returning a vertex when v is not
\* an endpoint of e.
C16_OppositeLookupMiss ==
    opp.called =>
        IF opp.v \in EdgeKey(opp.e)
        THEN /\ opp.kind = "return"
             /\ EdgeKey(opp.e) = {opp.v, opp.value}
        ELSE opp.kind = "raise"

\* ---- Sequence (SequenceADT.py) ----
\* _validate_position(p) for a _Position p: TRUE when it returns p, FALSE
\* when it raises ValueError (line 23)
validate_position(h, p) == ~(h[p].next = NONE \/ h[p].prev = NONE)

\* _make_position(node): None for a sentinel, else a new _Position object
\* holding the element and the references of node as they are now
make_position(h, node) ==
    IF node = HEADER \/ node = TRAILER
    THEN [heap |-> h, pos |-> NONE]
    ELSE [heap |-> Append(h, Position(h[node].element, h[node].prev, h[node].next)),
          pos |-> Len(h) + 1]

\* _insert_between(e, predecessor, successor)
insert_between(h, size, e, predecessor, successor) ==
    LET newest == Len(h) + 1
        h1 == Append(h, Position(e, predecessor, successor))
        h2 == [h1 EXCEPT ![predecessor].next = newest]
        h3 == [h2 EXCEPT ![successor].prev = newest]
        made == make_position(h3, newest)
    IN  [heap |-> made.heap, size |-> size + 1, out |-> Returns(made.pos)]

\* _delete_node(node)
delete_node(h, size, node) ==
    LET predecessor == h[node].prev
        successor == h[node].next
        h1 == [h EXCEPT ![predecessor].next = successor]
        h2 == [h1 EXCEPT ![successor].prev = predecessor]
        element == h2[node].element
        h3 == [h2 EXCEPT ![node] = Position(NONE, NONE, NONE)]
    IN  [heap |-> h3, size |-> size - 1, out |-> Returns(element)]

\* a call that raises ValueError leaves the sequence as it is
raise_ValueError(h, size) == [heap |-> h, size |-> size, out |-> Raises("ValueError")]

\* a call that only returns a Position
position_of(h, size, node) ==
    LET made == make_position(h, node)
    IN  [heap |-> made.heap, size |-> size, out |-> Returns(made.pos)]

\* Sequence.first(), last(), before(p), after(p)
first(h, size) == position_of(h, size, h[HEADER].next)
last(h, size) == position_of(h, size, h[TRAILER].prev)
before(h, size, p) ==
    IF validate_position(h, p) THEN position_of(h, size, h[p].prev)
    ELSE raise_ValueError(h, size)
after(h, size, p) ==
    IF validate_position(h, p) THEN position_of(h, size, h[p].next)
    ELSE raise_ValueError(h, size)

\* Sequence.insertFirst(e), insertLast(e), insertBefore(p, e), insertAfter(p, e)
insertFirst(h, size, e) == insert_between(h, size, e, HEADER, h[HEADER].next)
insertLast(h, size, e) == insert_between(h, size, e, h[TRAILER].prev, TRAILER)
insertBefore(h, size, p, e) ==
    IF validate_position(h, p) THEN insert_between(h, size, e, h[p].prev, p)
    ELSE raise_ValueError(h, size)
insertAfter(h, size, p, e) ==
    IF validate_position(h, p) THEN insert_between(h, size, e, p, h[p].next)
    ELSE raise_ValueError(h, size)

\* Sequence.remove(p)
remove(h, size, p) ==
    IF validate_position(h, p) THEN delete_node(h, size, p)
    ELSE raise_ValueError(h, size)

\* Sequence.__iter__ from the node the cursor was made of: the elements it
\* yields, and whether it ends normally (ok) rather than with the ValueError
\* of after(cursor) or without ending at all
RECURSIVE IterFrom(_, _, _)
IterFrom(h, node, fuel) ==
    IF node = HEADER \/ node = TRAILER
    THEN [ok |-> TRUE, elems |-> <<>>]
    ELSE IF fuel = 0 \/ h[node].next = NONE \/ h[node].prev = NONE
         THEN [ok |-> FALSE, elems |-> <<h[node].element>>]
         ELSE LET rest == IterFrom(h, h[node].next, fuel - 1)
              IN  [ok |-> rest.ok, elems |-> <<h[node].element>> \o rest.elems]

iter(h) == IterFrom(h, h[HEADER].next, Len(h))

\* ---- the caller of the Sequence ----
\* the element the caller inserts next: elements are never compared by the
\* Sequence, the caller uses a new one for every call
NewElement == seq_calls + 1

\* a Position handle as the caller got it, with the element it stood for
Handle(pos, element) == [pos |-> pos, element |-> element]

\* the handles of elements that have not been removed
LiveHandles == {hd \in handles : hd.element \in Range(seq_abs)}

\* the list order the calls define
AbsInsertAt(seq, i, e) == SubSeq(seq, 1, i - 1) \o <<e>> \o SubSeq(seq, i, Len(seq))
AbsIndex(seq, e) == CHOOSE i \in 1..Len(seq) : seq[i] = e
AbsRemove(seq, e) == SelectSeq(seq, LAMBDA y : y # e)

\* the common part of a call: r is what the method did
SeqCall(r) ==
    /\ seq_calls < MaxSeqCalls
    /\ heap' = r.heap
    /\ seq_size' = r.size
    /\ seq_result' = r.out
    /\ seq_calls' = seq_calls + 1
    /\ UNCHANGED <<opp, tree_vars, graph_vars, pc, bfs_vars>>

\* the caller keeps the Position a call returned
Keep(r, element) ==
    handles' = IF r.out.kind = "return" /\ r.out.value # NONE
               THEN handles \cup {Handle(r.out.value, element)}
               ELSE handles

SeqInsertFirst ==
    LET r == insertFirst(heap, seq_size, NewElement)
    IN  /\ SeqCall(r)
        /\ Keep(r, NewElement)
        /\ seq_abs' = <<NewElement>> \o seq_abs

SeqInsertLast ==
    LET r == insertLast(heap, seq_size, NewElement)
    IN  /\ SeqCall(r)
        /\ Keep(r, NewElement)
        /\ seq_abs' = Append(seq_abs, NewElement)

SeqInsertBefore(hd) ==
    LET r == insertBefore(heap, seq_size, hd.pos, NewElement)
    IN  /\ SeqCall(r)
        /\ Keep(r, NewElement)
        /\ seq_abs' = IF r.out.kind = "return" /\ hd.element \in Range(seq_abs)
                      THEN AbsInsertAt(seq_abs, AbsIndex(seq_abs, hd.element), NewElement)
                      ELSE seq_abs

SeqInsertAfter(hd) ==
    LET r == insertAfter(heap, seq_size, hd.pos, NewElement)
    IN  /\ SeqCall(r)
        /\ Keep(r, NewElement)
        /\ seq_abs' = IF r.out.kind = "return" /\ hd.element \in Range(seq_abs)
                      THEN AbsInsertAt(seq_abs, AbsIndex(seq_abs, hd.element) + 1, NewElement)
                      ELSE seq_abs

SeqRemove(hd) ==
    LET r == remove(heap, seq_size, hd.pos)
    IN  /\ SeqCall(r)
        /\ UNCHANGED handles
        /\ seq_abs' = IF r.out.kind = "return" THEN AbsRemove(seq_abs, hd.element)
                      ELSE seq_abs

SeqFirst ==
    LET r == first(heap, seq_size)
    IN  /\ SeqCall(r)
        /\ Keep(r, heap[heap[HEADER].next].element)
        /\ UNCHANGED seq_abs

SeqLast ==
    LET r == last(heap, seq_size)
    IN  /\ SeqCall(r)
        /\ Keep(r, heap[heap[TRAILER].prev].element)
        /\ UNCHANGED seq_abs

\* the calls of a caller that passes only Positions the Sequence returned for
\* elements that are still in it
NextSequence ==
    \/ SeqInsertFirst
    \/ SeqInsertLast
    \/ \E hd \in LiveHandles : SeqInsertBefore(hd)
    \/ \E hd \in LiveHandles : SeqInsertAfter(hd)
    \/ \E hd \in LiveHandles : SeqRemove(hd)
    \/ SeqFirst
    \/ SeqLast

SpecSequence == Init /\ [][NextSequence]_vars

\* ---- C20 ----
\* C20: after any calls with Positions of elements still in the sequence,
\* forward iteration ends normally and yields exactly the elements inserted
\* and not removed, in list order, and len() is their number (the number of
\* nodes linked between header and trailer).
C20_SequenceConsistency ==
    LET it == iter(heap)
    IN  /\ it.ok
        /\ it.elems = seq_abs
        /\ seq_size = Len(it.elems)

\* ---- calls with any Position the caller holds ----
\* Sequence.rankOf(p): the walk from header._next until it is at p; walking
\* off the trailer reads _next of None (AttributeError), and a walk that
\* never ends is "diverges"
RECURSIVE RankWalk(_, _, _, _, _)
RankWalk(h, walk, node, rank, fuel) ==
    IF walk = node THEN Returns(rank)
    ELSE IF walk = NONE THEN Raises("AttributeError")
    ELSE IF fuel = 0 THEN Raises("diverges")
    ELSE RankWalk(h, h[walk].next, node, rank + 1, fuel - 1)

rankOf(h, size, p) ==
    IF validate_position(h, p)
    THEN [heap |-> h, size |-> size, out |-> RankWalk(h, h[HEADER].next, p, 0, Len(h) + 1)]
    ELSE raise_ValueError(h, size)

SeqBefore(hd) ==
    LET r == before(heap, seq_size, hd.pos)
    IN  /\ SeqCall(r)
        /\ Keep(r, heap[heap[hd.pos].prev].element)
        /\ UNCHANGED seq_abs

SeqAfter(hd) ==
    LET r == after(heap, seq_size, hd.pos)
    IN  /\ SeqCall(r)
        /\ Keep(r, heap[heap[hd.pos].next].element)
        /\ UNCHANGED seq_abs

SeqRankOf(hd) ==
    LET r == rankOf(heap, seq_size, hd.pos)
    IN  /\ SeqCall(r)
        /\ UNCHANGED <<handles, seq_abs>>

\* the calls on a Position hd
PositionCall(hd) ==
    \/ SeqInsertBefore(hd)
    \/ SeqInsertAfter(hd)
    \/ SeqRemove(hd)
    \/ SeqBefore(hd)
    \/ SeqAfter(hd)
    \/ SeqRankOf(hd)

\* a caller that also uses the Positions of removed elements
NextSequenceAny ==
    \/ SeqInsertFirst
    \/ SeqInsertLast
    \/ SeqFirst
    \/ SeqLast
    \/ \E hd \in handles : SeqInsertBefore(hd)
    \/ \E hd \in handles : SeqInsertAfter(hd)
    \/ \E hd \in handles : SeqRemove(hd)
    \/ \E hd \in handles : SeqBefore(hd)
    \/ \E hd \in handles : SeqAfter(hd)
    \/ \E hd \in handles : SeqRankOf(hd)

SpecSequenceAny == Init /\ [][NextSequenceAny]_vars

\* ---- C21 ----
\* the handles of elements that have been removed
RemovedHandles == handles \ LiveHandles

\* C21: every remove, before, after, insertBefore, insertAfter or rankOf on a
\* handle of a removed element raises ValueError and leaves the sequence
\* (links and size) as it is, and len() is never negative.
C21_RemovedPositionInvalid ==
    /\ [][(\E hd \in RemovedHandles : PositionCall(hd))
            => /\ seq_result'.kind = "raise"
               /\ seq_result'.value = "ValueError"
               /\ heap' = heap
               /\ seq_size' = seq_size]_vars
    /\ [](seq_size >= 0)

\* ---- BinaryTree (BinaryTreeADT.py) ----
\* _validate(p): "ok" when it returns p, else the exception it raises; the
\* caller passes a _Position of the tree or None
validate(h, p) ==
    IF p = NONE THEN "TypeError"
    ELSE IF h[p].parent = p THEN "ValueError"
    ELSE "ok"

\* isInternal(p) / isExternal(p) for a valid p: leftChild(p) is not None
isInternal(h, p) == h[p].left # NONE
isExternal(h, p) == ~isInternal(h, p)

leftChild(h, p) == h[p].left
rightChild(h, p) == h[p].right

\* a call that raises leaves the tree as it is
tree_raise(h, size, x) == [nodes |-> h, size |-> size, out |-> Raises(x)]

\* _expand_external(p, e)
expand_external(h, size, p, e) ==
    IF validate(h, p) # "ok" THEN tree_raise(h, size, validate(h, p))
    ELSE IF isInternal(h, p) THEN tree_raise(h, size, "ValueError")
    ELSE LET h1 == [h EXCEPT ![p].element = e,
                             ![p].left = Len(h) + 1,
                             ![p].right = Len(h) + 2]
             h2 == Append(h1, TreePosition(NONE, p, NONE, NONE))
             h3 == Append(h2, TreePosition(NONE, p, NONE, NONE))
         IN  [nodes |-> h3, size |-> size + 1, out |-> Returns(p)]

\* add_root(e)
add_root(h, size, e) ==
    IF size # 0 THEN tree_raise(h, size, "ValueError")
    ELSE expand_external(h, size, ROOT, e)

\* insertLeft(p, e)
insertLeft(h, size, p, e) ==
    IF validate(h, p) # "ok" THEN tree_raise(h, size, validate(h, p))
    ELSE IF isExternal(h, p) THEN tree_raise(h, size, "ValueError")
    ELSE IF isInternal(h, leftChild(h, p)) THEN tree_raise(h, size, "ValueError")
    ELSE expand_external(h, size, leftChild(h, p), e)

\* insertRight(p, e)
insertRight(h, size, p, e) ==
    IF validate(h, p) # "ok" THEN tree_raise(h, size, validate(h, p))
    ELSE IF isExternal(h, p) THEN tree_raise(h, size, "ValueError")
    ELSE IF isInternal(h, rightChild(h, p)) THEN tree_raise(h, size, "ValueError")
    ELSE expand_external(h, size, rightChild(h, p), e)

\* line 174 of remove(p)
has_internal_children_never(h, p) == FALSE
has_internal_children(h, p) ==
    isInternal(h, leftChild(h, p)) \/ isInternal(h, rightChild(h, p))

\* BinaryTree.remove(p)
tree_remove(h, size, p) ==
    IF validate(h, p) # "ok" THEN tree_raise(h, size, validate(h, p))
    ELSE IF isExternal(h, p) THEN tree_raise(h, size, "ValueError")
    ELSE IF has_internal_children(h, p) THEN tree_raise(h, size, "ValueError")
    ELSE [nodes |-> [h EXCEPT ![p].element = NONE, ![p].left = NONE, ![p].right = NONE],
          size |-> size - 1,
          out |-> Returns(h[p].element)]

\* ---- the caller of the BinaryTree ----
\* positions are the nodes themselves (_make_position returns node), so the
\* caller can hold every node the tree ever had, or pass None
TreeArgs == {NONE} \cup (1..Len(tree_nodes))

TreeCall(r) ==
    /\ tree_calls < MaxTreeCalls
    /\ tree_nodes' = r.nodes
    /\ tree_size' = r.size
    /\ tree_result' = r.out
    /\ tree_calls' = tree_calls + 1
    /\ UNCHANGED <<opp, seq_vars, graph_vars, pc, bfs_vars>>

TreeAddRoot == TreeCall(add_root(tree_nodes, tree_size, tree_calls + 1))
TreeInsertLeft(p) == TreeCall(insertLeft(tree_nodes, tree_size, p, tree_calls + 1))
TreeInsertRight(p) == TreeCall(insertRight(tree_nodes, tree_size, p, tree_calls + 1))
TreeRemove(p) == TreeCall(tree_remove(tree_nodes, tree_size, p))

NextTree ==
    \/ TreeAddRoot
    \/ \E p \in TreeArgs : TreeInsertLeft(p)
    \/ \E p \in TreeArgs : TreeInsertRight(p)
    \/ \E p \in TreeArgs : TreeRemove(p)

SpecTree == Init /\ [][NextTree]_vars

\* ---- C22 ----
\* the nodes reachable from node through child references
RECURSIVE Reach(_, _, _)
Reach(h, node, fuel) ==
    IF node = NONE \/ fuel = 0 THEN {}
    ELSE {node} \cup Reach(h, h[node].left, fuel - 1) \cup Reach(h, h[node].right, fuel - 1)

ReachableNodes == Reach(tree_nodes, ROOT, Len(tree_nodes))

\* C22: len() is the number of internal nodes reachable from the root, every
\* reachable node has two children or none, and a call that raises leaves
\* the tree and its size unchanged.
C22_TreeInvariant ==
    /\ [](tree_size = Cardinality({n \in ReachableNodes : tree_nodes[n].left # NONE}))
    /\ [](\A n \in ReachableNodes :
            (tree_nodes[n].left = NONE) <=> (tree_nodes[n].right = NONE))
    /\ [][tree_calls' # tree_calls /\ tree_result'.kind = "raise"
            => UNCHANGED <<tree_nodes, tree_size>>]_vars

\* a call has just raised on a tree that holds an element and has had a removal
C22_Witness ==
    /\ tree_result.kind = "raise"
    /\ tree_size >= 1
    /\ Len(tree_nodes) > 1 + 2 * tree_size

\* ---- C23 ----
\* C23: a run of bfs(), once called, returns; the queue is empty whenever a
\* component has been finished and when bfs() returns; a run never dequeues
\* more vertices than the graph has, and when it returns it has dequeued
\* exactly as many as the graph has.
C23_Termination ==
    /\ (pc = "init_result" ~> Returned)
    /\ [](pc \in {"finish_bfs_component", "post_component_visit"} => q = <<>>)
    /\ [](InRun => Len(DeqLog) <= Cardinality(Verts))
    /\ [](Returned => q = <<>> /\ Len(DeqLog) = Cardinality(Verts))

\* bfs() has returned on a graph of an edge and an isolated vertex
C23_Witness ==
    /\ Returned
    /\ Len(DeqLog) = 3
    /\ Cardinality(Components) = 2
    /\ q = <<>>

\* ---- C24 ----
\* the number of hops of a shortest path to x from the vertices of frontier,
\* plus d, along edges with endpoint sets in E; -1 when there is no path
RECURSIVE HopsFrom(_, _, _, _)
HopsFrom(E, frontier, x, d) ==
    IF x \in frontier THEN d
    ELSE LET grown == frontier \cup UNION {key \in E : key \cap frontier # {}}
         IN  IF grown = frontier THEN -1 ELSE HopsFrom(E, grown, x, d + 1)

Hops(E, a, b) == HopsFrom(E, {a}, b, 0)

GraphKeys == {EdgeKey(e) : e \in EdgeObjects(adjacency_map)}
DiscoveryKeys == {key \in DOMAIN edge_labels : edge_labels[key] = DISCOVERY}
CrossKeys == {key \in DOMAIN edge_labels : edge_labels[key] = CROSS}

\* the seed of the component of x, once that component has been started
SeedOf(x) == CHOOSE sd \in Range(Seeds) : x \in ComponentOf(sd)

\* the depth of x in the tree of DISCOVERY edges, and its distance in the graph
Depth(x) == Hops(DiscoveryKeys, SeedOf(x), x)
Distance(x) == Hops(GraphKeys, SeedOf(x), x)

\* C24: when bfs() returns, the DISCOVERY edges of each component are a tree
\* on its vertices (one edge less than vertices, all reached from the seed)
\* in which every vertex is at its graph distance from the seed; vertices of
\* one component were dequeued in non-decreasing depth; and the endpoints of
\* every CROSS edge differ in depth by at most 1.
C24_LevelProperty ==
    Returned =>
        /\ \A C \in Components :
              Cardinality({key \in DiscoveryKeys : key \subseteq C}) = Cardinality(C) - 1
        /\ \A x \in Verts : Depth(x) >= 0 /\ Depth(x) = Distance(x)
        /\ \A i, j \in 1..Len(DeqLog) :
              (i < j /\ SeedOf(DeqLog[i]) = SeedOf(DeqLog[j]))
                  => Depth(DeqLog[i]) <= Depth(DeqLog[j])
        /\ \A key \in CrossKeys : \A a, b \in key :
              Depth(a) - Depth(b) \in {-1, 0, 1}

\* bfs() has returned on a triangle: two vertices at depth 1 joined by a
\* CROSS edge
C24_Witness ==
    /\ Returned
    /\ Cardinality(Verts) = 3
    /\ Cardinality(DiscoveryKeys) = 2
    /\ \E key \in CrossKeys : \A a \in key : Depth(a) = 1

\* bfs() has returned on a path of three edges: a vertex at depth 2 or more
C24_DeepWitness == Returned /\ \E x \in Verts : Depth(x) >= 2

\* ---- C25 ----
\* set.add(edge) on a set of Edge objects: Edge.__eq__ and __hash__ compare
\* frozenset(endpoints), so an equal object already in the set is kept
set_add_by_identity(U, edge) == U \cup {edge}
set_add(U, edge) ==
    IF \E f \in U : EdgeKey(f) = EdgeKey(edge) THEN U ELSE U \cup {edge}

\* the inner loop of Graph.edges() over one edge_list
RECURSIVE add_edge_list(_, _)
add_edge_list(U, edge_list) ==
    IF edge_list = <<>> THEN U
    ELSE add_edge_list(set_add(U, Head(edge_list)), Tail(edge_list))

\* the outer loop of Graph.edges() over adjacency_map.values(); the dict keeps
\* the order in which insert_vertex created its keys, that of vm
RECURSIVE unique_edges(_, _, _)
unique_edges(U, vm, am) ==
    IF vm = <<>> THEN U
    ELSE unique_edges(add_edge_list(U, am[Head(vm)]), Tail(vm), am)

\* the Edge objects Graph.edges() returns
EdgesSet == unique_edges({}, vertices_map, adjacency_map)

\* the pre_disc_edge_visit and cross_edge_visit calls made for the endpoint
\* pair key
ClassifyCalls(key) ==
    SelectSeq(hook_log, LAMBDA h : /\ h.hook \in {"pre_disc_edge_visit", "cross_edge_visit"}
                                   /\ EdgeKey(h.args[3]) = key)

\* the Edge objects between the endpoints of key
Parallel(key) == {e \in EdgeObjects(adjacency_map) : EdgeKey(e) = key}

\* C25: insert_edge(a, b) with a # b appends one new Edge object to the
\* incident list of a and to that of b, whether or not an edge between them
\* exists; edges() and edge_labels hold exactly one entry per unordered
\* endpoint pair; and the parallel edges of a pair trigger the discovery or
\* cross hook at most once during a run and exactly once when bfs() returns.
C25_ParallelEdges ==
    /\ [][\A a, b \in Elements :
            (a # b /\ InsertEdge(a, b)) =>
                LET la == incident_edges(adjacency_map', a)
                    lb == incident_edges(adjacency_map', b)
                IN  /\ Len(la) = Len(incident_edges(adjacency_map, a)) + 1
                    /\ Len(lb) = Len(incident_edges(adjacency_map, b)) + 1
                    /\ la[Len(la)] = lb[Len(lb)]
                    /\ la[Len(la)] \notin EdgeObjects(adjacency_map)]_vars
    /\ [](/\ Cardinality(EdgesSet) = Cardinality(GraphKeys)
          /\ {EdgeKey(e) : e \in EdgesSet} = GraphKeys)
    /\ [](InRun => /\ DOMAIN edge_labels = GraphKeys
                   /\ \A key \in GraphKeys : Len(ClassifyCalls(key)) <= 1)
    /\ [](Returned => \A key \in GraphKeys : Len(ClassifyCalls(key)) = 1)

\* bfs() has returned on a graph with three parallel edges between two
\* vertices
C25_Witness ==
    /\ Returned
    /\ \E key \in GraphKeys : Cardinality(key) = 2 /\ Cardinality(Parallel(key)) = 3
    /\ Cardinality(EdgesSet) = 1
====
